---------------------------- MODULE Spec2Model ----------------------------
(***************************************************************************)
(* ProcMonUI (src/ProcMonUI.cpp): the process list, the filter, the        *)
(* parent->children index, subtree collection and the batch action         *)
(* (Kill / Suspend / Resume) applied to the rows selected in the list.     *)
(*                                                                         *)
(* A wide string is a sequence of code units (65 = 'A', 97 = 'a', ...).    *)
(* A std::vector is a sequence, a std::unordered_map a function on its     *)
(* key set.  A DWORD is a natural; the pids of the model are small, so the *)
(* casts DWORD -> int -> DWORD of the list view's first column are exact.  *)
(***************************************************************************)
EXTENDS Integers, Sequences, FiniteSets, TLC

(***************************************************************************)
(* Bounds of the model.                                                    *)
(***************************************************************************)
\* Largest number of processes in the process table; live pids are
\* 0 .. MaxProcs-1, and MaxProcs itself is a pid that is never live (a
\* parent that has exited).
MaxProcs == 3

LivePids == 0 .. (MaxProcs - 1)
ParentPids == 0 .. MaxProcs

(***************************************************************************)
(* Small helpers                                                           *)
(***************************************************************************)
Range(s) == { s[i] : i \in DOMAIN s }

\* towlower on one code unit ('A'..'Z' -> 'a'..'z', everything else kept).
towlower(c) == IF c >= 65 /\ c <= 90 THEN c + 32 ELSE c

\* ToLower: std::transform over the string.
ToLower(s) == [ i \in DOMAIN s |-> towlower(s[i]) ]

\* std::wstring::find(needle): the least position (0-based) at which needle
\* occurs in hay, or npos (-1 here).
npos == -1

Find(hay, needle) ==
  LET starts == { i \in 0 .. (Len(hay) - Len(needle)) :
                    SubSeq(hay, i + 1, i + Len(needle)) = needle }
  IN  IF starts = {} THEN npos
      ELSE CHOOSE i \in starts : \A j \in starts : i <= j

\* A variant that compares without folding the case.
IContains_CaseSensitive(hay, needle) == Find(hay, needle) # npos

IContains(hay, needle) == Find(ToLower(hay), ToLower(needle)) # npos

\* operator< on std::wstring: lexicographic on code units.
RECURSIVE WstrLess(_, _)
WstrLess(a, b) ==
  IF b = << >> THEN FALSE
  ELSE IF a = << >> THEN TRUE
  ELSE IF Head(a) # Head(b) THEN Head(a) < Head(b)
  ELSE WstrLess(Tail(a), Tail(b))

(***************************************************************************)
(* Process model                                                           *)
(***************************************************************************)
\* What the enrichment of Snapshot() finds for a pid: the executable name of
\* the ToolHelp entry, the image path and the working set.  Pid 0 (Idle) is
\* never opened, so its path is empty and its rss 0; a process whose
\* OpenProcess / QueryFullProcessImageNameW fails keeps an empty path.
\*   pid 0        "Ab"  ""    0
\*   pid 1, 4, .. "b"   "baB" 2
\*   pid 2, 5, .. "b"   ""    2
\*   pid 3, 6, .. "Ba"  "bb"  1
NameOf(pid) ==
  IF pid = 0 THEN <<65, 98>>
  ELSE IF pid % 3 = 0 THEN <<66, 97>> ELSE <<98>>

PathOf(pid) ==
  IF pid = 0 THEN << >>
  ELSE IF pid % 3 = 1 THEN <<98, 97, 66>>
  ELSE IF pid % 3 = 2 THEN << >> ELSE <<98, 98>>

RssOf(pid) ==
  IF pid = 0 THEN 0 ELSE IF pid % 3 = 0 THEN 1 ELSE 2

\* struct Proc
Proc(pid, ppid) ==
  [ pid |-> pid, ppid |-> ppid, name |-> NameOf(pid), path |-> PathOf(pid),
    rss |-> RssOf(pid) ]

\* The process tables of the operating system: any set of live pids, each
\* with any parent pid (a live one, itself, or one that is gone).
Tables ==
  UNION { { { Proc(p, pp[p]) : p \in S } : pp \in [S -> ParentPids] } :
          S \in SUBSET LivePids }

\* The comparator of the std::sort in RefreshData.
SortLess(a, b) ==
  IF a.rss # b.rss THEN a.rss > b.rss ELSE WstrLess(a.name, b.name)

\* std::sort is not stable: any arrangement of the records that the
\* comparator accepts as sorted can come out.
SortedVectors(table) ==
  LET n == Cardinality(table)
  IN  { v \in [1 .. n -> table] :
          /\ \A i, j \in 1 .. n : i # j => v[i] # v[j]
          /\ \A i \in 1 .. n - 1 : ~SortLess(v[i + 1], v[i]) }

(***************************************************************************)
(* Parent -> children index and subtree collection                         *)
(***************************************************************************)
\* BuildChildren: m[p.ppid].push_back(p.pid) for the records in vector order.
\* The keys are the parent pids that occur; each bucket lists the pids of the
\* records with that parent, in the order of v.
RECURSIVE PidsWithParent(_, _)
PidsWithParent(v, ppid) ==
  IF v = << >> THEN << >>
  ELSE IF Head(v).ppid = ppid
       THEN <<Head(v).pid>> \o PidsWithParent(Tail(v), ppid)
       ELSE PidsWithParent(Tail(v), ppid)

BuildChildren(v) ==
  [ ppid \in { v[i].ppid : i \in DOMAIN v } |-> PidsWithParent(v, ppid) ]

\* CollectTree(pid, ch, out): push pid, then recurse into each child in
\* bucket order.  The code keeps no visited set.  `active` is the set of pids
\* whose CollectTree frame is on the call stack: ch never changes, so a call
\* for a pid that is already active repeats its own computation for ever
\* (the recursion has no other exit), and the call never returns: the stack
\* overflows.  returns = FALSE records that; otherwise out is the vector
\* after the call.
\* A variant that pushes the pid and its direct children and goes no deeper.
CollectTree_NoRecurse(pid, ch, out, active) ==
  [ out |-> Append(out, pid) \o (IF pid \in DOMAIN ch THEN ch[pid] ELSE << >>),
    returns |-> TRUE ]

RECURSIVE CollectTree(_, _, _, _)
RECURSIVE CollectChildren(_, _, _, _, _)
CollectTree(pid, ch, out, active) ==
  IF pid \in active THEN [ out |-> out, returns |-> FALSE ]
  ELSE IF pid \notin DOMAIN ch
       THEN [ out |-> Append(out, pid), returns |-> TRUE ]
       ELSE CollectChildren(ch[pid], 1, ch, Append(out, pid),
                            active \cup {pid})

\* for (DWORD c : it->second) CollectTree(c, ch, out);
CollectChildren(cs, i, ch, out, active) ==
  IF i > Len(cs) THEN [ out |-> out, returns |-> TRUE ]
  ELSE LET r == CollectTree(cs[i], ch, out, active)
       IN  IF ~r.returns THEN r
           ELSE CollectChildren(cs, i + 1, ch, r.out, active)

(***************************************************************************)
(* The action primitives.  `outcome` is what the operating system answers  *)
(* for the pid: "denied" (OpenProcess returns NULL: protected process, or  *)
(* the pid has exited), "failed" (the handle opens, the call on it fails)  *)
(* or "ok".  Each primitive returns its bool and the system calls made.    *)
(***************************************************************************)
Outcomes == { "denied", "failed", "ok" }

OsCall(fn, pid) == [ fn |-> fn, pid |-> pid ]

OnHandle(access, fn, pid, outcome) ==
  IF outcome = "denied"
  THEN [ res |-> FALSE, calls |-> << OsCall(access, pid) >> ]
  ELSE [ res |-> (outcome = "ok"),
         calls |-> << OsCall(access, pid), OsCall(fn, pid),
                      OsCall("CloseHandle", pid) >> ]

TerminatePid(pid, outcome) ==
  OnHandle("OpenProcess(TERMINATE)", "TerminateProcess", pid, outcome)

\* A variant that opens the process before it looks at the pointer.
SuspendPid_LateCheck(pid, outcome, pNtSuspend) ==
  IF outcome = "denied" \/ ~pNtSuspend
  THEN [ res |-> FALSE, calls |-> << OsCall("OpenProcess(SUSPEND_RESUME)", pid) >> ]
  ELSE OnHandle("OpenProcess(SUSPEND_RESUME)", "NtSuspendProcess", pid,
                outcome)

\* if (!pNtSuspendProcess) return false;
SuspendPid(pid, outcome, pNtSuspend) ==
  IF ~pNtSuspend THEN [ res |-> FALSE, calls |-> << >> ]
  ELSE OnHandle("OpenProcess(SUSPEND_RESUME)", "NtSuspendProcess", pid,
                outcome)

ResumePid(pid, outcome, pNtResume) ==
  IF ~pNtResume THEN [ res |-> FALSE, calls |-> << >> ]
  ELSE OnHandle("OpenProcess(SUSPEND_RESUME)", "NtResumeProcess", pid,
                outcome)

(***************************************************************************)
(* The list view: column 0 of each row is the pid as decimal text.         *)
(***************************************************************************)
\* _itow_s((int)pid, buf, 10)
RECURSIVE Itow(_)
Itow(n) ==
  IF n < 0 THEN <<45>> \o Itow(0 - n)
  ELSE IF n < 10 THEN <<48 + n>>
  ELSE Itow(n \div 10) \o <<48 + (n % 10)>>

\* _wtoi(buf): an optional sign, then the leading decimal digits.
RECURSIVE WtoiDigits(_, _)
WtoiDigits(s, acc) ==
  IF s = << >> \/ Head(s) < 48 \/ Head(s) > 57 THEN acc
  ELSE WtoiDigits(Tail(s), 10 * acc + (Head(s) - 48))

Wtoi(s) ==
  IF s # << >> /\ Head(s) = 45 THEN 0 - WtoiDigits(Tail(s), 0)
  ELSE WtoiDigits(s, 0)

\* ListView_Clear, then ListView_AddOrSet for each record of g.filtered:
\* the texts of column 0, row by row.
ListViewRows(v) == [ i \in DOMAIN v |-> Itow(v[i].pid) ]

\* GetSelectedPids: ListView_GetNextItem walks the selected rows in
\* ascending index order; each pid is read back from the row's text.
RECURSIVE GetSelectedPidsFrom(_, _, _)
GetSelectedPidsFrom(items, sel, idx) ==
  LET later == { i \in sel : i > idx }
  IN  IF later = {} THEN << >>
      ELSE LET nxt == CHOOSE i \in later : \A j \in later : i <= j
           IN  <<Wtoi(items[nxt])>> \o GetSelectedPidsFrom(items, sel, nxt)

GetSelectedPids(items, sel) == GetSelectedPidsFrom(items, sel, 0)

(***************************************************************************)
(* Filtering                                                               *)
(***************************************************************************)
\* The test of ApplyFilter's loop for one record.
FilterKeeps(p, filter) ==
  IContains(p.name, filter) \/ IContains(p.path, filter)

RECURSIVE FilterLoop(_, _)
FilterLoop(v, filter) ==
  IF v = << >> THEN << >>
  ELSE IF FilterKeeps(Head(v), filter)
       THEN <<Head(v)>> \o FilterLoop(Tail(v), filter)
       ELSE FilterLoop(Tail(v), filter)

\* ApplyFilter: the new g.filtered from g.all and g.filter.
ApplyFilter(all, filter) ==
  IF filter = << >> THEN all ELSE FilterLoop(all, filter)

(***************************************************************************)
(* ActOnSelection                                                          *)
(***************************************************************************)
\* std::sort(victims.begin(), victims.end()): ascending.
RECURSIVE InsertAsc(_, _)
InsertAsc(x, s) ==
  IF s = << >> THEN <<x>>
  ELSE IF x <= Head(s) THEN <<x>> \o s
  ELSE <<Head(s)>> \o InsertAsc(x, Tail(s))

\* A variant that leaves the vector in the order it was filled.
SortAsc_NoSort(s) == s

RECURSIVE SortAsc(_)
SortAsc(s) == IF s = << >> THEN << >> ELSE InsertAsc(Head(s), SortAsc(Tail(s)))

\* victims.erase(std::unique(...), victims.end()): drops each element equal to
\* the one before it.
RECURSIVE Unique(_)
Unique(s) ==
  IF Len(s) <= 1 THEN s
  ELSE IF s[1] = s[2] THEN Unique(Tail(s))
  ELSE <<s[1]>> \o Unique(Tail(s))

\* A variant that sorts and keeps the duplicates.
SortUnique_NoUnique(s) == SortAsc(s)

SortUnique(s) == Unique(SortAsc(s))

\* A variant that builds the index from the rows shown.
CurrentChildren_Filtered(all, filtered) == BuildChildren(filtered)

\* CurrentChildren: the index is built from g.all.
CurrentChildren(all, filtered) == BuildChildren(all)

\* for (DWORD pid : pids) { if (tree) CollectTree(pid, ch, victims);
\*                          else victims.push_back(pid); }
\* A variant that never looks at the Tree box.
GatherVictims_IgnoreTree(pids, i, tree, ch, victims) ==
  [ out |-> victims \o SubSeq(pids, i, Len(pids)), returns |-> TRUE ]

RECURSIVE GatherVictims(_, _, _, _, _)
GatherVictims(pids, i, tree, ch, victims) ==
  IF i > Len(pids) THEN [ out |-> victims, returns |-> TRUE ]
  ELSE IF tree
       THEN LET r == CollectTree(pids[i], ch, victims, {})
            IN  IF ~r.returns THEN r
                ELSE GatherVictims(pids, i + 1, tree, ch, r.out)
       ELSE GatherVictims(pids, i + 1, tree, ch, Append(victims, pids[i]))

\* The body of the loop over the victims: the primitive of the action.
Invoke(action, pid, outcome, pNtSuspend, pNtResume) ==
  IF action = 1 THEN TerminatePid(pid, outcome)
  ELSE IF action = 2 THEN SuspendPid(pid, outcome, pNtSuspend)
  ELSE IF action = 3 THEN ResumePid(pid, outcome, pNtResume)
  ELSE [ res |-> FALSE, calls |-> << >> ]

\* for (auto it = victims.rbegin(); it != victims.rend(); ++it): from the
\* last victim down to the first; acc carries the attempts made, the system
\* calls made, and the counters ok and fail.
\* A variant that leaves the loop at the first failure.
RECURSIVE ActLoop_StopOnFail(_, _, _, _, _, _, _)
ActLoop_StopOnFail(action, victims, i, os, pNtSuspend, pNtResume, acc) ==
  IF i < 1 THEN acc
  ELSE LET pid == victims[i]
           r == Invoke(action, pid, os[pid], pNtSuspend, pNtResume)
           acc2 == [ attempts |-> Append(acc.attempts, [ pid |-> pid, res |-> r.res ]),
                     oscalls |-> acc.oscalls \o r.calls,
                     ok |-> IF r.res THEN acc.ok + 1 ELSE acc.ok,
                     fail |-> IF r.res THEN acc.fail ELSE acc.fail + 1 ]
       IN  IF r.res
           THEN ActLoop_StopOnFail(action, victims, i - 1, os, pNtSuspend,
                                   pNtResume, acc2)
           ELSE acc2

RECURSIVE ActLoop(_, _, _, _, _, _, _)
ActLoop(action, victims, i, os, pNtSuspend, pNtResume, acc) ==
  IF i < 1 THEN acc
  ELSE LET pid == victims[i]
           r == Invoke(action, pid, os[pid], pNtSuspend, pNtResume)
       IN  ActLoop(action, victims, i - 1, os, pNtSuspend, pNtResume,
             [ attempts |-> Append(acc.attempts, [ pid |-> pid, res |-> r.res ]),
               oscalls |-> acc.oscalls \o r.calls,
               ok |-> IF r.res THEN acc.ok + 1 ELSE acc.ok,
               fail |-> IF r.res THEN acc.fail ELSE acc.fail + 1 ])

NoLoop == [ attempts |-> << >>, oscalls |-> << >>, ok |-> 0, fail |-> 0 ]

MsgBox(title, text, args) == [ title |-> title, text |-> text, args |-> args ]

\* What one call of ActOnSelection does:
\*   returns   FALSE when the call never returns (CollectTree recursing
\*             without end)
\*   pids      the selected pids           raw    victims before the sort
\*   victims   victims after sort + unique
\*   attempts  the primitive invocations, in order, each with its result
\*   oscalls   the system calls made by the primitives, in order
\*   tally     << >>, or the one pair of counters the call reports
\*   boxes     the message boxes shown
\* ActOnSelection from line 345 on: the selection is not empty.
ActOnVictims(action, pids, tree, all, filtered, os, pNtSuspend, pNtResume) ==
  LET ch == CurrentChildren(all, filtered)
      g == GatherVictims(pids, 1, tree, ch, << >>)
  IN  IF ~g.returns
      THEN [ returns |-> FALSE, pids |-> pids, raw |-> g.out,
             victims |-> << >>, attempts |-> << >>, oscalls |-> << >>,
             tally |-> << >>, boxes |-> << >> ]
      ELSE
        LET victims == SortUnique(g.out)
            run == ActLoop(action, victims, Len(victims), os, pNtSuspend,
                           pNtResume, NoLoop)
        IN  [ returns |-> TRUE, pids |-> pids, raw |-> g.out,
              victims |-> victims, attempts |-> run.attempts,
              oscalls |-> run.oscalls,
              tally |-> << [ ok |-> run.ok, fail |-> run.fail ] >>,
              boxes |-> << MsgBox("Action result", "OK=%d FAIL=%d",
                                  <<run.ok, run.fail>>) >> ]

\* A variant without the test for an empty selection.
ActOnSelection_NoCheck(action, pids, tree, all, filtered, os, pNtSuspend, pNtResume) ==
  ActOnVictims(action, pids, tree, all, filtered, os, pNtSuspend, pNtResume)

ActOnSelection(action, pids, tree, all, filtered, os, pNtSuspend, pNtResume) ==
  IF pids = << >>
  THEN [ returns |-> TRUE, pids |-> pids, raw |-> << >>, victims |-> << >>,
         attempts |-> << >>, oscalls |-> << >>, tally |-> << >>,
         boxes |-> << MsgBox("ProcMonUI", "Select one or more rows first.", << >>) >> ]
  ELSE ActOnVictims(action, pids, tree, all, filtered, os, pNtSuspend,
                    pNtResume)

(***************************************************************************)
(* State                                                                   *)
(***************************************************************************)
VARIABLES
  g_all,              \* g.all: the last snapshot, sorted
  g_filtered,         \* g.filtered: the records shown
  g_filter,           \* g.filter: the search text
  lvItems,            \* the list view: the text of column 0 of each row
  lvSel,              \* the list view: the selected rows
  chkTree,            \* the Tree check box
  pNtSuspendProcess,  \* TRUE when the pointer is not null
  pNtResumeProcess,
  running,            \* FALSE once a handler has failed to return
  last                \* what the last step did (see Event)

vars == << g_all, g_filtered, g_filter, lvItems, lvSel, chkTree,
           pNtSuspendProcess, pNtResumeProcess, running, last >>

\* The search texts typed into the edit control: "", "aB", "BA".
Queries == { << >>, <<97, 66>>, <<66, 65>> }

NoCall ==
  [ returns |-> TRUE, pids |-> << >>, raw |-> << >>, victims |-> << >>,
    attempts |-> << >>, oscalls |-> << >>, tally |-> << >>, boxes |-> << >> ]

\* The record kept in `last`: for Kill / Suspend / Resume the event, the
\* action code, g.all and the Tree box as ActOnSelection read them and what
\* the call did; for every other step ev = "none".  boxes are the message
\* boxes and dialogs the step showed.
Event(ev, action, all, tree, call, boxes) ==
  [ ev |-> ev, action |-> action, all |-> all, tree |-> tree, call |-> call,
    boxes |-> boxes ]

Quiet == Event("none", 0, << >>, FALSE, NoCall, << >>)

\* The answers Snapshot() can give when the program is idle and the user asks
\* for a refresh or an export, after the table held the records of `all`:
\* the same processes, or one of them has exited meanwhile.  (No process is
\* created while the window is open: every table within the bound is covered
\* by Init.)
Snapshots(all) ==
  LET recs == Range(all)
  IN  {recs} \cup { recs \ {p} : p \in recs }

\* The answer Snapshot() gives right after ActOnSelection: the processes it
\* terminated are gone.
SnapshotAfter(all, terminated) ==
  { p \in Range(all) : p.pid \notin terminated }

\* A variant of RefreshData that shows the whole snapshot without ApplyFilter.
RefreshData_NoFilter(table) ==
  /\ g_all' \in SortedVectors(table)
  /\ g_filtered' = g_all'
  /\ lvItems' = ListViewRows(g_filtered')
  /\ lvSel' = {}

\* RefreshData: g.all = Snapshot(), sorted; ApplyFilter; the list view is
\* cleared (which drops the selection) and filled from g.filtered.
RefreshData(table) ==
  /\ g_all' \in SortedVectors(table)
  /\ g_filtered' = ApplyFilter(g_all', g_filter)
  /\ lvItems' = ListViewRows(g_filtered')
  /\ lvSel' = {}

\* LoadNtFunctions: with no ntdll handle both pointers stay null; otherwise
\* GetProcAddress resolves both names (ntdll exports the two together).
LoadNtFunctions ==
  \E ntdll \in BOOLEAN :
    /\ pNtSuspendProcess = ntdll
    /\ pNtResumeProcess = ntdll

\* After WM_CREATE: LoadNtFunctions, then the one-time RefreshData.
Init ==
  /\ LoadNtFunctions
  /\ g_filter = << >>
  /\ \E table \in Tables : g_all \in SortedVectors(table)
  /\ g_filtered = ApplyFilter(g_all, g_filter)
  /\ lvItems = ListViewRows(g_filtered)
  /\ lvSel = {}
  /\ chkTree = FALSE
  /\ running = TRUE
  /\ last = Quiet

(***************************************************************************)
(* Steps                                                                   *)
(***************************************************************************)
\* The user clicks a row.  The list view is created LVS_SINGLESEL: the row
\* clicked becomes the only selected row.
ClickRow ==
  /\ running
  /\ \E i \in DOMAIN lvItems : lvSel' = {i}
  /\ last' = Quiet
  /\ UNCHANGED << g_all, g_filtered, g_filter, lvItems, chkTree,
                   pNtSuspendProcess, pNtResumeProcess, running >>

\* The user toggles the Tree check box (BS_AUTOCHECKBOX).
ToggleTree ==
  /\ running
  /\ chkTree' = ~chkTree
  /\ last' = Quiet
  /\ UNCHANGED << g_all, g_filtered, g_filter, lvItems, lvSel,
                   pNtSuspendProcess, pNtResumeProcess, running >>

\* WM_COMMAND, IDC_EDIT_SEARCH / EN_CHANGE: g.filter = the text, ApplyFilter,
\* the list view cleared and refilled.
SearchChange ==
  /\ running
  /\ \E text \in Queries : g_filter' = text
  /\ g_filtered' = ApplyFilter(g_all, g_filter')
  /\ lvItems' = ListViewRows(g_filtered')
  /\ lvSel' = {}
  /\ last' = Quiet
  /\ UNCHANGED << g_all, chkTree, pNtSuspendProcess, pNtResumeProcess,
                   running >>

\* WM_COMMAND, IDC_BTN_REFRESH.
OnRefresh ==
  /\ running
  /\ \E table \in Snapshots(g_all) : RefreshData(table)
  /\ last' = Quiet
  /\ UNCHANGED << g_filter, chkTree, pNtSuspendProcess, pNtResumeProcess,
                   running >>

\* The answers of the operating system to the primitives of one call: one
\* outcome per victim (a single one where the primitive makes no system call).
OutcomeChoices(action, victims) ==
  IF \/ action = 2 /\ ~pNtSuspendProcess
     \/ action = 3 /\ ~pNtResumeProcess
  THEN { [ pid \in Range(victims) |-> "denied" ] }
  ELSE [ Range(victims) -> Outcomes ]

Terminated(action, call) ==
  IF action = 1
  THEN { call.attempts[i].pid : i \in { j \in DOMAIN call.attempts :
                                          call.attempts[j].res } }
  ELSE {}

\* WM_COMMAND, IDC_BTN_KILL / IDC_BTN_SUSPEND / IDC_BTN_RESUME:
\* ActOnSelection(action), then RefreshData.  When ActOnSelection does not
\* return, the handler does not either and the program is gone.
OnAction(ev, action) ==
  /\ LET pids == GetSelectedPids(lvItems, lvSel)
         dry == ActOnSelection(action, pids, chkTree, g_all, g_filtered,
                               [ pid \in ParentPids |-> "ok" ],
                               pNtSuspendProcess, pNtResumeProcess)
     IN  \E os \in OutcomeChoices(action, dry.victims) :
           LET call == ActOnSelection(action, pids, chkTree, g_all,
                                      g_filtered, os, pNtSuspendProcess,
                                      pNtResumeProcess)
           IN  /\ last' = Event(ev, action, g_all, chkTree, call, call.boxes)
               /\ IF call.returns
                  THEN /\ running' = TRUE
                       /\ RefreshData(SnapshotAfter(g_all, Terminated(action, call)))
                  ELSE /\ running' = FALSE
                       /\ UNCHANGED << g_all, g_filtered, lvItems, lvSel >>
  /\ UNCHANGED << g_filter, chkTree, pNtSuspendProcess, pNtResumeProcess >>

OnKill ==
  /\ running
  /\ OnAction("kill", 1)

OnSuspend ==
  /\ running
  /\ OnAction("suspend", 2)

OnResume ==
  /\ running
  /\ OnAction("resume", 3)

\* WM_COMMAND, IDC_BTN_JSON / IDC_BTN_CSV: a message box when there is no
\* row, else the save dialog for the export of g.filtered; RefreshData.
OnExport(title) ==
  /\ last' = Event("none", 0, << >>, FALSE, NoCall,
                   IF g_filtered = << >>
                   THEN << MsgBox("Export", "No rows to export.", << >>) >>
                   ELSE << MsgBox(title, "GetSaveFileNameW", << >>) >>)
  /\ \E table \in Snapshots(g_all) : RefreshData(table)
  /\ UNCHANGED << g_filter, chkTree, pNtSuspendProcess, pNtResumeProcess,
                   running >>

OnExportJson ==
  /\ running
  /\ OnExport("Export JSON")

OnExportCsv ==
  /\ running
  /\ OnExport("Export CSV")

Next ==
  \/ ClickRow
  \/ ToggleTree
  \/ SearchChange
  \/ OnRefresh
  \/ OnKill
  \/ OnSuspend
  \/ OnResume
  \/ OnExportJson
  \/ OnExportCsv

Spec == Init /\ [][Next]_vars

\* GetSelectedPids and ActOnSelection are written for any number of selected
\* rows.  SpecMulti lets the list view hold any selection (Ctrl+click toggles
\* a row, as without LVS_SINGLESEL); every behaviour of Spec is one of
\* SpecMulti.
CtrlClickRow ==
  /\ running
  /\ \E i \in DOMAIN lvItems :
       lvSel' = IF i \in lvSel THEN lvSel \ {i} ELSE lvSel \cup {i}
  /\ last' = Quiet
  /\ UNCHANGED << g_all, g_filtered, g_filter, lvItems, chkTree,
                   pNtSuspendProcess, pNtResumeProcess, running >>

NextMulti == Next \/ CtrlClickRow

SpecMulti == Init /\ [][NextMulti]_vars

(***************************************************************************)
(* Vocabulary of the properties.  None of it uses the operators above that *)
(* model the code: the subtree of a pid is the least set closed under the  *)
(* parent links of the snapshot.                                           *)
(***************************************************************************)
RECURSIVE ClosedUnder(_, _)
ClosedUnder(all, S) ==
  LET more == S \cup { p.pid : p \in { q \in Range(all) : q.ppid \in S } }
  IN  IF more = S THEN S ELSE ClosedUnder(all, more)

\* rootPid and its transitive descendants in the snapshot.
SubtreeSet(all, rootPid) == ClosedUnder(all, {rootPid})

\* The transitive descendants of pid, pid itself only if it is its own
\* descendant.
DescendantsOf(all, pid) ==
  ClosedUnder(all, { p.pid : p \in { q \in Range(all) : q.ppid = pid } })

\* No record is its own descendant.
Acyclic(all) == \A p \in Range(all) : p.pid \notin DescendantsOf(all, p.pid)

UniquePids(all) == \A i, j \in DOMAIN all : all[i].pid = all[j].pid => i = j

\* The record of a pid, its parent and its position in the snapshot.
IndexOfPid(all, pid) == CHOOSE i \in DOMAIN all : all[i].pid = pid
ParentOfPid(all, pid) == all[IndexOfPid(all, pid)].ppid
Listed(all, pid) == \E i \in DOMAIN all : all[i].pid = pid

NoDuplicates(s) == \A i, j \in DOMAIN s : s[i] = s[j] => i = j

\* Acted: the step was a Kill / Suspend / Resume click.  ActedOnRows: rows
\* were selected and ActOnSelection returned.
Acted == last.ev # "none"
ActedOnRows == Acted /\ last.call.pids # << >> /\ last.call.returns

AttemptedPids == { last.call.attempts[i].pid : i \in DOMAIN last.call.attempts }
OsCallPids == { last.call.oscalls[i].pid : i \in DOMAIN last.call.oscalls }

(***************************************************************************)
(* C1.  Subtree resolution terminates for every finite snapshot, cycles in *)
(* the parent links included: every call of ActOnSelection returns.        *)
(* The code has no visited set; this is violated.                          *)
(***************************************************************************)
C1_SubtreeResolutionTerminates == last.call.returns

(***************************************************************************)
(* C2.  On a snapshot with unique pids and acyclic parent links,           *)
(* CollectTree for a root emits the root first, then exactly its           *)
(* transitive descendants, each once, in depth-first pre-order with each   *)
(* children list in index order (the order of the records in g.all).       *)
(* With one row selected, the vector before the sort is CollectTree's      *)
(* output for that row's pid.                                              *)
(***************************************************************************)
\* out is the pre-order of the subtree of rootPid: it starts with the root,
\* holds exactly the subtree, each pid once; the subtree of every element is
\* the block that starts at it; and of two children of one parent the one
\* earlier in the snapshot comes first.
IsPreorder(all, rootPid, out) ==
  /\ out # << >> /\ out[1] = rootPid
  /\ NoDuplicates(out)
  /\ Range(out) = SubtreeSet(all, rootPid)
  /\ \A i \in DOMAIN out :
       LET n == Cardinality(SubtreeSet(all, out[i]))
       IN  /\ i + n - 1 <= Len(out)
           /\ { out[j] : j \in i .. (i + n - 1) } = SubtreeSet(all, out[i])
  /\ \A i, j \in DOMAIN out :
       ( /\ i > 1 /\ j > 1 /\ i < j
         /\ ParentOfPid(all, out[i]) = ParentOfPid(all, out[j]) )
       => IndexOfPid(all, out[i]) < IndexOfPid(all, out[j])

TreeCallOnOneRow ==
  Acted /\ last.tree /\ Len(last.call.pids) = 1

ScopeOf(all, pids, tree) ==
  IF tree THEN UNION { SubtreeSet(all, t) : t \in Range(pids) }
  ELSE Range(pids)

C3_ActionScope ==
  /\ ActedOnRows
     => /\ AttemptedPids = ScopeOf(last.all, last.call.pids, last.tree)
        /\ OsCallPids \subseteq ScopeOf(last.all, last.call.pids, last.tree)
  /\ ~ActedOnRows => AttemptedPids = {} /\ OsCallPids = {}

\* Two rows selected, Tree on, and the subtrees add a third pid.
C3_Witness ==
  /\ ActedOnRows /\ last.tree
  /\ Len(last.call.pids) = 2
  /\ Cardinality(AttemptedPids) = 3

(***************************************************************************)
(* C4.  At most once per target: within one call the primitive is invoked  *)
(* at most once for each pid, whatever the selection - the victim list has *)
(* no duplicates, and a victim whose primitive failed is not tried again.  *)
(***************************************************************************)
C4_AtMostOnce ==
  Acted
  => /\ NoDuplicates(last.call.victims)
     /\ \A i, j \in DOMAIN last.call.attempts :
          last.call.attempts[i].pid = last.call.attempts[j].pid => i = j

\* Overlapping subtrees: the vector before the sort names a pid twice, and
\* one primitive failed.
C4_Witness ==
  /\ ActedOnRows /\ last.tree
  /\ ~NoDuplicates(last.call.raw)
  /\ \E i \in DOMAIN last.call.attempts : ~last.call.attempts[i].res

(***************************************************************************)
(* C5.  Partial failure is not fatal: every victim is attempted whatever   *)
(* the earlier ones answered; succeeded is the number of primitives that   *)
(* returned true, failed the number that returned false, and together they *)
(* are the size of the deduplicated victim set.  The result box shows the  *)
(* two counters.                                                           *)
(***************************************************************************)
Succeeded == { i \in DOMAIN last.call.attempts : last.call.attempts[i].res }
Failed == { i \in DOMAIN last.call.attempts : ~last.call.attempts[i].res }

C5_PartialFailureTally ==
  ActedOnRows
  => /\ AttemptedPids = Range(last.call.raw)
     /\ Len(last.call.tally) = 1
     /\ last.call.tally[1].ok = Cardinality(Succeeded)
     /\ last.call.tally[1].fail = Cardinality(Failed)
     /\ last.call.tally[1].ok + last.call.tally[1].fail
          = Cardinality(Range(last.call.raw))
     /\ last.boxes = << MsgBox("Action result", "OK=%d FAIL=%d",
                               << Cardinality(Succeeded), Cardinality(Failed) >>) >>

\* A primitive failed and a later one succeeded, in a call whose subtrees
\* overlapped (the vector before the sort was longer than the victim list).
C5_Witness ==
  /\ ActedOnRows
  /\ Len(last.call.raw) > Len(last.call.victims)
  /\ \E i, j \in DOMAIN last.call.attempts :
       i < j /\ ~last.call.attempts[i].res /\ last.call.attempts[j].res

(***************************************************************************)
(* C6.  Invalid request: an action clicked with no row selected shows the  *)
(* "Select one or more rows first." box, invokes no primitive and makes no *)
(* system call on any process, and reports no tally.                       *)
(***************************************************************************)
ActedOnNothing == Acted /\ last.call.pids = << >>

C6_EmptySelection ==
  ActedOnNothing
  => /\ last.boxes = << MsgBox("ProcMonUI", "Select one or more rows first.", << >>) >>
     /\ last.call.attempts = << >>
     /\ last.call.oscalls = << >>
     /\ last.call.tally = << >>

\* Kill was clicked with no row selected while the list had rows.
C6_Witness ==
  /\ ActedOnNothing /\ last.action = 1 /\ last.all # << >>

(***************************************************************************)
(* C7.  Capability absent: with the pointer of the action null, Suspend    *)
(* (Resume) returns false for every victim without opening a handle or any *)
(* other system call: over n victims the call reports succeeded = 0 and    *)
(* failed = n, and TerminateProcess is never called.                       *)
(***************************************************************************)
CapabilityAbsentCall ==
  /\ ActedOnRows
  /\ \/ last.action = 2 /\ ~pNtSuspendProcess
     \/ last.action = 3 /\ ~pNtResumeProcess

C7_CapabilityAbsent ==
  /\ CapabilityAbsentCall
     => /\ last.call.oscalls = << >>
        /\ \A i \in DOMAIN last.call.attempts : ~last.call.attempts[i].res
        /\ last.call.tally
             = << [ ok |-> 0, fail |-> Cardinality(Range(last.call.raw)) ] >>
  /\ ( Acted /\ last.action # 1 )
     => \A i \in DOMAIN last.call.oscalls :
          last.call.oscalls[i].fn # "TerminateProcess"

\* Suspend over two victims with the pointer null.
C7_Witness ==
  /\ CapabilityAbsentCall /\ last.action = 2
  /\ Len(last.call.attempts) = 2

(***************************************************************************)
(* C8.  Filter correctness: g.filtered is exactly the subsequence of       *)
(* g.all, in g.all's order, of the records whose name or path contains the *)
(* search text as a substring, letters compared without regard to case;    *)
(* with the empty text it is g.all unchanged.                              *)
(***************************************************************************)
IsLetter(c) == (c >= 65 /\ c <= 90) \/ (c >= 97 /\ c <= 122)

SameIgnoringCase(c, d) ==
  \/ c = d
  \/ IsLetter(c) /\ IsLetter(d) /\ (c - d = 32 \/ d - c = 32)

\* query occurs in text at some offset, letter case ignored.
OccursIn(query, text) ==
  \E off \in 0 .. Len(text) :
    /\ off + Len(query) <= Len(text)
    /\ \A k \in 1 .. Len(query) : SameIgnoringCase(text[off + k], query[k])

Matches(p, query) == OccursIn(query, p.name) \/ OccursIn(query, p.path)

\* The positions of g.all whose records match, in ascending order, are the
\* records of g.filtered.
MatchingSubsequence(all, query) ==
  LET keep == { i \in DOMAIN all : Matches(all[i], query) }
      nth(k) == CHOOSE i \in keep : Cardinality({ j \in keep : j < i }) = k - 1
  IN  [ k \in 1 .. Cardinality(keep) |-> all[nth(k)] ]

C8_FilterCorrect ==
  /\ g_filtered = MatchingSubsequence(g_all, g_filter)
  /\ g_filter = << >> => g_filtered = g_all

\* A text that drops a record, keeps two in order, one of them by its path
\* alone and one by a name that differs from the text in case.
C8_Witness ==
  /\ g_filter # << >>
  /\ Len(g_filtered) = 2 /\ Len(g_all) = 3
  /\ \E i \in DOMAIN g_filtered :
       /\ ~OccursIn(g_filter, g_filtered[i].name)
       /\ OccursIn(g_filter, g_filtered[i].path)
  /\ \E i \in DOMAIN g_filtered :
       Find(g_filtered[i].name, g_filter) = npos
       /\ OccursIn(g_filter, g_filtered[i].name)

(***************************************************************************)
(* C9.  Subtree resolution does not depend on the filter: with Tree on,    *)
(* the victims are the subtrees of the selected pids in the full snapshot  *)
(* g.all, whatever the search text is - as with the empty text - so the    *)
(* descendants the filter hides are victims too.                           *)
(***************************************************************************)
Hidden(p) == ~Matches(p, g_filter)

C9_FilterIndependentSubtree ==
  ( ActedOnRows /\ last.tree )
  => /\ Range(last.call.victims)
          = UNION { SubtreeSet(last.all, t) : t \in Range(last.call.pids) }
     /\ \A p \in Range(last.all) :
          ( Hidden(p) /\ \E t \in Range(last.call.pids) :
                           p.pid \in SubtreeSet(last.all, t) )
          => p.pid \in AttemptedPids

\* A victim's record was hidden by the filter when the action ran.
C9_Witness ==
  /\ ActedOnRows /\ last.tree /\ g_filter # << >>
  /\ \E p \in Range(last.all) : Hidden(p) /\ p.pid \in AttemptedPids

(***************************************************************************)
(* C10.  Deepest first: with Tree on, whenever a process and its parent    *)
(* (per the snapshot) are both victims, the primitive is invoked on the    *)
(* child before the parent.  The code orders by descending pid; this is    *)
(* violated when a child's pid is below its parent's.                      *)
(***************************************************************************)
C10_ChildBeforeParent ==
  ( ActedOnRows /\ last.tree )
  => \A i, j \in DOMAIN last.call.attempts :
       ( /\ i # j
         /\ ParentOfPid(last.all, last.call.attempts[i].pid)
              = last.call.attempts[j].pid )
       => i < j

(***************************************************************************)
(* C11.  Within one call the primitive is invoked on the victims in        *)
(* strictly descending numeric pid order, whatever the order of the        *)
(* selected rows and of the pids CollectTree emitted.                      *)
(***************************************************************************)
C11_DescendingPidOrder ==
  Acted
  => /\ \A i, j \in DOMAIN last.call.attempts :
          i < j => last.call.attempts[i].pid > last.call.attempts[j].pid
     /\ last.call.returns => AttemptedPids = Range(last.call.raw)

\* Three victims were acted on, and the vector before the sort was neither
\* ascending nor descending.
C11_Witness ==
  /\ ActedOnRows
  /\ Len(last.call.attempts) = 3
  /\ \E i \in 1 .. (Len(last.call.raw) - 1) :
       last.call.raw[i] < last.call.raw[i + 1]
  /\ \E i \in 1 .. (Len(last.call.raw) - 1) :
       last.call.raw[i] > last.call.raw[i + 1]

(***************************************************************************)
(* C12.  View consistency: after every handled event, in any sequence of   *)
(* events, g.filtered is the filter applied to the current g.all with the  *)
(* current g.filter, hence a subsequence of g.all, and the rows shown are  *)
(* the records of g.filtered; a refresh (and every step that replaces      *)
(* g.all) leaves g.filter unchanged.                                       *)
(***************************************************************************)
\* s is t with some elements left out, the others in t's order.
RECURSIVE IsSubsequence(_, _)
IsSubsequence(s, t) ==
  IF s = << >> THEN TRUE
  ELSE IF t = << >> THEN FALSE
  ELSE IF Head(s) = Head(t) THEN IsSubsequence(Tail(s), Tail(t))
  ELSE IsSubsequence(s, Tail(t))

ViewConsistent ==
  /\ g_filtered = ApplyFilter(g_all, g_filter)
  /\ IsSubsequence(g_filtered, g_all)
  /\ Len(lvItems) = Len(g_filtered)
  /\ \A i \in DOMAIN lvItems : Wtoi(lvItems[i]) = g_filtered[i].pid

RefreshKeepsFilter ==
  ( OnRefresh \/ g_all' # g_all ) => g_filter' = g_filter

C12_ViewConsistency == []ViewConsistent /\ [][RefreshKeepsFilter]_vars

\* A search text was set that hides a record and keeps one, and then a Kill
\* removed a process from g.all: the view was rebuilt by both handlers.
C12_Witness ==
  /\ ActedOnRows /\ last.action = 1
  /\ g_all # last.all
  /\ g_filter # << >>
  /\ g_filtered # << >> /\ Len(g_filtered) < Len(g_all)

=============================================================================
